---- MODULE Spec2Model ----
(***************************************************************************)
(* A model of the frkr request-mirroring middleware (index.js and its two  *)
(* transports).  Strings that the code inspects character by character     *)
(* (paths, URLs, route patterns) are sequences of one-character strings;   *)
(* a value that may be null/undefined is a sequence of length 0 or 1.      *)
(* Every action is one synchronous turn of the event loop: the code from   *)
(* one suspension point (await, callback) to the next.                     *)
(***************************************************************************)
EXTENDS Integers, Sequences, FiniteSets, TLC

\* ------------------------------------------------------------ bounds
\* Requests that enter the middleware in one behaviour.
MaxReqs == 2
\* Times the wall clock advances in one behaviour.
MaxTicks == 1

\* ------------------------------------------------- program constants
\* The cache's safety margin, in ms (getAccessToken's validity check).
Margin == 60000
\* The validity assumed when the provider returns no expiry, in ms.
DefaultTtl == 3600000
\* expires_in is in seconds.
MsPerSec == 1000

\* ------------------------------------------------------ optional values
None == <<>>
Some(x) == <<x>>

\* JS truthiness of an optional string: undefined, null and '' are falsy.
Truthy(o) == o # None /\ o[1] # ""

\* The same for a string held as a sequence of characters.
TruthyText(o) == o # None /\ o[1] # <<>>

\* a || b
OrElse(a, b) == IF Truthy(a) THEN a ELSE b

\* ------------------------------------------------------------- strings
\* A cut at the last '?' instead of the first.
BeforeLastQuery(s) ==
  LET q == {i \in 1..Len(s) : s[i] = "?"}
  IN  IF q = {} THEN s
      ELSE SubSeq(s, 1, (CHOOSE i \in q : \A j \in q : i >= j) - 1)

\* s.split('?')[0]
BeforeQuery(s) ==
  LET q == {i \in 1..Len(s) : s[i] = "?"}
  IN  IF q = {} THEN s
      ELSE SubSeq(s, 1, (CHOOSE i \in q : \A j \in q : i <= j) - 1)

\* s.endsWith(t)
EndsWith(s, t) ==
  /\ Len(t) <= Len(s)
  /\ SubSeq(s, Len(s) - Len(t) + 1, Len(s)) = t

\* s.startsWith(t)
StartsWith(s, t) ==
  /\ Len(t) <= Len(s)
  /\ SubSeq(s, 1, Len(t)) = t

\* s.slice(0, -2)
DropLast2(s) == IF Len(s) <= 2 THEN <<>> ELSE SubSeq(s, 1, Len(s) - 2)

\* ------------------------------------------------------- request views
\* The requests the host framework hands to the middleware: path and url
\* may be absent; next may not be a function.  id names the request to a
\* routing function, which is given by its result on each id.
ViewIds == 1..3

View(v) ==
  CASE v = 1 -> [path |-> Some(<<"/","a","p","i","/","o">>),
                 url  |-> Some(<<"/","a","p","i","/","o","?","x">>),
                 id |-> 1, nextIsFn |-> TRUE]
    [] v = 2 -> [path |-> None,
                 url  |-> Some(<<"/","a","p","i","2","?","y","?","z">>),
                 id |-> 2, nextIsFn |-> TRUE]
    [] OTHER -> [path |-> Some(<<"/","a","p","i">>),
                 url  |-> None,
                 id |-> 3, nextIsFn |-> FALSE]

\* normalizePath(req)
normalizePath(req) ==
  LET path == IF ~TruthyText(req.path) /\ TruthyText(req.url)
              THEN Some(BeforeQuery(req.url[1]))
              ELSE req.path
  IN  IF TruthyText(path) THEN path[1] ELSE <<"/">>

\* ------------------------------------------------------ configurations
\* The process holds one middleware instance per configuration below, each
\* the result of one mirror(config) call.
NoStream == [kind |-> "undefined", value |-> "", entries |-> <<>>, fn |-> <<>>]

StringStream(s) == [NoStream EXCEPT !.kind = "string", !.value = s]

ObjectStream(es) == [NoStream EXCEPT !.kind = "object", !.entries = es]

\* A routing function, given by its result on each request id.
FunctionStream(f) == [NoStream EXCEPT !.kind = "function", !.fn = f]

NoConfig ==
  [streamId |-> NoStream, transport |-> None, clientId |-> None,
   clientSecret |-> None, issuer |-> None, authDomain |-> None,
   audience |-> None, username |-> None, password |-> None]

ConfigNames == {"basic", "half", "oidc", "oidcFn", "oidcNoIssuer"}

Config(c) ==
  CASE c = "basic" ->
         [NoConfig EXCEPT
            !.streamId = ObjectStream(<<
               [pattern |-> <<"/","a","p","i","/","*">>, streamId |-> Some("api-stream")],
               [pattern |-> <<"/","a","p","i","/","o">>, streamId |-> Some("orders-stream")]>>),
            !.transport = Some("http"),
            !.username = Some("u"), !.password = Some("p")]
    [] c = "half" ->
         [NoConfig EXCEPT
            !.streamId = StringStream("half-stream"),
            !.clientId = Some("client-h"),
            !.issuer = Some("https://idp-h")]
    [] c = "oidc" ->
         [NoConfig EXCEPT
            !.streamId = StringStream("single-stream"),
            !.transport = Some("grpc"),
            !.clientId = Some("client-a"), !.clientSecret = Some("secret-a"),
            !.issuer = Some("https://idp-a"), !.authDomain = Some("idp-x"),
            !.audience = Some("aud-a")]
    [] c = "oidcFn" ->
         [NoConfig EXCEPT
            !.streamId = FunctionStream(<<Some(""), None, Some("fn-stream")>>),
            !.clientId = Some("client-b"), !.clientSecret = Some("secret-b"),
            !.authDomain = Some("idp-b")]
    [] OTHER ->
         [NoConfig EXCEPT
            !.clientId = Some("client-c"), !.clientSecret = Some("secret-c")]

\* The requests that enter: a middleware (by its configuration) and a view.
\*   basic/1         exact route, basic auth, HTTP
\*   basic/2         no route matches: no stream
\*   half/1          a client id and no client secret, default user and password
\*   oidc/2          single stream, bearer token, gRPC, path taken from the url
\*   oidcFn/1        the routing function returns ''
\*   oidcFn/3        bearer token, issuer from authDomain, next not a function
\*   oidcNoIssuer/1  stream from the environment, no issuer configured
Scenarios ==
  {<<"basic", 1>>, <<"basic", 2>>, <<"half", 1>>, <<"oidc", 2>>, <<"oidcFn", 1>>,
   <<"oidcFn", 3>>, <<"oidcNoIssuer", 1>>}

\* process.env.FRKR_STREAM_ID when the process starts.
EnvStreamIds == {Some("env-stream")}

\* ----------------------------------------------------- stream resolver
\* streamIdConfig[key] for an object configuration: the entry's value, or
\* undefined.
Lookup(entries, key) ==
  LET hit == {i \in 1..Len(entries) : entries[i].pattern = key}
  IN  IF hit = {} THEN None ELSE entries[CHOOSE i \in hit : TRUE].streamId

\* A scan that accepts every path that starts with the prefix, segment
\* boundary or not.
PrefixMatchesInsideSegment(e, path) ==
  /\ e.pattern # <<"*">>
  /\ e.pattern # path
  /\ EndsWith(e.pattern, <<"/","*">>)
  /\ StartsWith(path, DropLast2(e.pattern))

\* A prefix-wildcard entry that the scan of getStreamId accepts for path.
PrefixMatches(e, path) ==
  /\ e.pattern # <<"*">>
  /\ e.pattern # path
  /\ EndsWith(e.pattern, <<"/","*">>)
  /\ LET prefix == DropLast2(e.pattern)
     IN  path = prefix \/ StartsWith(path, prefix \o <<"/">>)

\* config.streamId || process.env.FRKR_STREAM_ID, with the environment's
\* value as e: a function or an object is truthy, '' and undefined are not.
StreamIdConfig(config, e) ==
  IF config.streamId.kind \in {"function", "object"} THEN config.streamId
  ELSE IF config.streamId.kind = "string" /\ config.streamId.value # ""
       THEN config.streamId
       ELSE IF e = None THEN NoStream ELSE StringStream(e[1])

\* A scan that takes the catch-all, when the map has one, before the prefix
\* wildcards.
ScanPatternsCatchAllFirst(entries, path) ==
  LET pre == {i \in 1..Len(entries) : PrefixMatches(entries[i], path)}
  IN  IF Lookup(entries, <<"*">>) # None THEN Lookup(entries, <<"*">>)
      ELSE IF pre # {}
           THEN entries[CHOOSE i \in pre : \A j \in pre : i <= j].streamId
           ELSE None

\* The scan for the first matching prefix wildcard, then the catch-all.
ScanPatterns(entries, path) ==
  LET pre == {i \in 1..Len(entries) : PrefixMatches(entries[i], path)}
  IN  IF pre # {}
      THEN entries[CHOOSE i \in pre : \A j \in pre : i <= j].streamId
      ELSE Lookup(entries, <<"*">>)

\* A resolver that falls back to the environment's stream when the routing
\* function returns nothing.
getStreamIdFnFallback(config, request, e) ==
  LET sc   == StreamIdConfig(config, e)
      path == normalizePath(request)
  IN  CASE sc.kind = "function" ->
             IF Truthy(sc.fn[request.id]) THEN sc.fn[request.id] ELSE e
        [] sc.kind = "object" ->
             IF Lookup(sc.entries, path) # None THEN Lookup(sc.entries, path)
             ELSE ScanPatterns(sc.entries, path)
        [] sc.kind = "string" -> Some(sc.value)
        [] OTHER -> None

\* A resolver that scans the prefix wildcards before it looks for the exact
\* key.
getStreamIdScanFirst(config, request, e) ==
  LET sc   == StreamIdConfig(config, e)
      path == normalizePath(request)
  IN  CASE sc.kind = "function" -> sc.fn[request.id]
        [] sc.kind = "object" ->
             IF \E i \in 1..Len(sc.entries) : PrefixMatches(sc.entries[i], path)
             THEN ScanPatterns(sc.entries, path)
             ELSE IF Lookup(sc.entries, path) # None THEN Lookup(sc.entries, path)
                  ELSE Lookup(sc.entries, <<"*">>)
        [] sc.kind = "string" -> Some(sc.value)
        [] OTHER -> None

\* getStreamId(config, req), with process.env.FRKR_STREAM_ID as e.
getStreamId(config, request, e) ==
  LET sc   == StreamIdConfig(config, e)
      path == normalizePath(request)
  IN  CASE sc.kind = "function" -> sc.fn[request.id]
        [] sc.kind = "object" ->
             IF Lookup(sc.entries, path) # None THEN Lookup(sc.entries, path)
             ELSE ScanPatterns(sc.entries, path)
        [] sc.kind = "string" -> Some(sc.value)
        [] OTHER -> None

\* ---------------------------------------------------------------- state
VARIABLES
  now,          \* Date.now(), in ms
  ticks,        \* how often the clock has advanced
  env,          \* process.env
  mw,           \* what each mirror(config) call captured in its closure
  tokenCache,   \* the module's token cache
  issuerCache,  \* the module's issuer cache
  grantSeq,     \* the identity provider's count of tokens issued
  req,          \* per request: the handler's position, locals and effects
  args,         \* the arguments of a direct call of a function of the module
  ret           \* what the direct calls returned

vars == <<now, ticks, env, mw, tokenCache, issuerCache, grantSeq, req, args, ret>>

Reqs == 1..MaxReqs

\* The clock's steps, in ms: one step takes a token granted for 120 s to the
\* edge of the safety margin, two take it to its expiry.
ClockSteps == {60000}

\* What the provider may return as expires_in (seconds), or nothing.
ExpiresInVals == {None, Some(0), Some(120)}

\* A request that has not entered the middleware yet.
IdleReq ==
  [pc |-> "idle", cfg |-> "none", view |-> 0,
   streamId |-> None,        \* getStreamId's result
   requestData |-> None,     \* the envelope
   token |-> None,           \* what getAccessToken resolved with
   err |-> "none",           \* what getAccessToken rejected with
   authHeader |-> None,
   discoverCalls |-> <<>>,   \* Issuer.discover calls made, by URL
   grantCalls |-> <<>>,      \* client.grant calls made
   sent |-> <<>>,            \* transport.send calls made
   delivery |-> "none",      \* the delivery's state
   nextCalls |-> 0,          \* times next was invoked
   nextErr |-> FALSE,        \* whether next was given an argument
   logs |-> {}]              \* console.error lines written for it

\* mirror(config): the closure's constants, with the environment as e.
mirror(config, e) ==
  [transportType |-> OrElse(config.transport, OrElse(e.FRKR_TRANSPORT, Some("http")))[1],
   username      |-> OrElse(config.username, OrElse(e.FRKR_USERNAME, Some("testuser")))[1],
   password      |-> OrElse(config.password, OrElse(e.FRKR_PASSWORD, Some("testpass")))[1],
   clientId      |-> OrElse(config.clientId, e.FRKR_CLIENT_ID),
   clientSecret  |-> OrElse(config.clientSecret, e.FRKR_CLIENT_SECRET)]

\* The process after the module is loaded and every mirror(config) call made.
ProcessInit ==
  /\ now = 0
  /\ ticks = 0
  /\ \E s \in EnvStreamIds :
       env = [FRKR_STREAM_ID |-> s, FRKR_TRANSPORT |-> None, FRKR_USERNAME |-> None,
              FRKR_PASSWORD |-> None, FRKR_CLIENT_ID |-> None,
              FRKR_CLIENT_SECRET |-> None]
  /\ mw = [c \in ConfigNames |-> mirror(Config(c), env)]
  /\ tokenCache = [accessToken |-> None, expiresAt |-> 0]
  /\ issuerCache = None
  /\ grantSeq = 0
  /\ req = [r \in Reqs |-> IdleReq]

\* No direct call: the functions run only from the handler.
NoCall == [config |-> NoConfig, request |-> [path |-> None, url |-> None, id |-> 1],
           e |-> None]

NoRet == [streamId |-> None, path |-> None, requestIds |-> <<>>]

Init ==
  /\ ProcessInit
  /\ args = NoCall
  /\ ret = NoRet

\* ------------------------------------------------- credential provider
\* A cache check with no safety margin.
CacheValidNoMargin ==
  /\ tokenCache.accessToken # None
  /\ now < tokenCache.expiresAt

\* A cache check that never looks at the expiry.
CacheValidForever == tokenCache.accessToken # None

\* The cache check of getAccessToken.
CacheValid ==
  /\ tokenCache.accessToken # None
  /\ now < tokenCache.expiresAt - Margin

\* An issuer derived from authDomain first, config.issuer second.
IssuerUrlAuthDomainFirst(config) ==
  IF Truthy(config.authDomain) THEN Some("https://" \o config.authDomain[1])
  ELSE IF Truthy(config.issuer) THEN config.issuer
       ELSE None

\* config.issuer || (config.authDomain ? `https://${config.authDomain}` : null)
IssuerUrl(config) ==
  IF Truthy(config.issuer) THEN config.issuer
  ELSE IF Truthy(config.authDomain) THEN Some("https://" \o config.authDomain[1])
       ELSE None

\* getAccessToken's catch: the error is logged and thrown again.
TokenFailure(q, e) ==
  [q EXCEPT !.pc = "tokenFailed", !.err = e, !.logs = @ \cup {"token"}]

\* new issuerCache.Client(...) and client.grant(...) up to its await, with
\* the issuer cache's content as iss.
StartGrant(q, config, iss) ==
  [q EXCEPT !.pc = "awaitGrant",
            !.grantCalls = Append(@, [issuer    |-> iss,
                                      client_id |-> config.clientId[1],
                                      audience  |-> OrElse(config.audience,
                                                           Some("https://api.frkr.io"))[1]])]

\* A token fetch that discovers the issuer whatever the issuer cache holds.
StartGetAccessTokenAlwaysDiscovers(q, config) ==
  IF CacheValid
  THEN [q EXCEPT !.pc = "tokenReady", !.token = tokenCache.accessToken]
  ELSE IF IssuerUrl(config) = None
       THEN TokenFailure(q, "config")
       ELSE [q EXCEPT !.pc = "awaitDiscover",
                      !.discoverCalls = Append(@, IssuerUrl(config)[1])]

\* getAccessToken(config) from its first line to its first suspension or
\* return.
StartGetAccessToken(q, config) ==
  IF CacheValid
  THEN [q EXCEPT !.pc = "tokenReady", !.token = tokenCache.accessToken]
  ELSE IF IssuerUrl(config) = None
       THEN TokenFailure(q, "config")
       ELSE IF issuerCache = None
            THEN [q EXCEPT !.pc = "awaitDiscover",
                           !.discoverCalls = Append(@, IssuerUrl(config)[1])]
            ELSE StartGrant(q, config, issuerCache[1])

\* tokenCache.expiresAt after a grant that returned expires_in = exp.
ExpiresAt(exp) ==
  IF exp # None /\ exp[1] # 0 THEN now + exp[1] * MsPerSec ELSE now + DefaultTtl

\* ------------------------------------------------------------ middleware
\* if (typeof next === 'function') next()
CallNext(q) ==
  IF View(q.view).nextIsFn THEN [q EXCEPT !.nextCalls = @ + 1] ELSE q

\* An envelope that carries req.path as it came, not the normalized path.
RequestDataRawPath(sid, v) ==
  [stream_id |-> sid, path |-> IF View(v).path = None THEN <<>> ELSE View(v).path[1]]

\* The envelope built for a request.
RequestData(sid, v) ==
  [stream_id |-> sid, path |-> normalizePath(View(v))]

\* `Basic ${base64(username:password)}`
BasicHeader(m) ==
  [scheme |-> "Basic", basic |-> <<m.username, m.password>>, bearer |-> None]

\* `Bearer ${token}`
BearerHeader(tok) ==
  [scheme |-> "Bearer", basic |-> <<>>, bearer |-> tok]

\* A handler that awaited the delivery before continuing.
DispatchAwaited(q, header) ==
  [q EXCEPT !.pc = "awaitSend",
            !.authHeader = Some(header),
            !.sent = Append(@, [data |-> q.requestData[1], auth |-> header]),
            !.delivery = "inflight"]

\* transport.send(requestData, authHeader).catch(...) and the next() after it.
Dispatch(q, header) ==
  CallNext([q EXCEPT !.pc = "done",
                     !.authHeader = Some(header),
                     !.sent = Append(@, [data |-> q.requestData[1], auth |-> header]),
                     !.delivery = "inflight"])

\* A catch that logs and falls through to the send, the header undefined.
AuthFailedFallsThrough(q) ==
  CallNext([q EXCEPT !.pc = "done",
                     !.sent = Append(@, [data |-> q.requestData[1],
                                         auth |-> [scheme |-> "undefined", basic |-> <<>>,
                                                   bearer |-> None]]),
                     !.delivery = "inflight"])

\* The catch around the auth header: next(), nothing sent.
AuthFailed(q) == CallNext([q EXCEPT !.pc = "done"])

\* A check that skips only a null stream: streamId === null.
SkipsOnlyNull(sid) == sid = None

\* if (!streamId)
Skips(sid) == ~Truthy(sid)

\* A decision that takes either credential for both.
UsesClientCredentialsEither(m) == Truthy(m.clientId) \/ Truthy(m.clientSecret)

\* clientId && clientSecret
UsesClientCredentials(m) == Truthy(m.clientId) /\ Truthy(m.clientSecret)

\* { ...config, clientId, clientSecret }: what the handler of configuration
\* c passes to getAccessToken.
TokenConfig(c) ==
  [Config(c) EXCEPT !.clientId = mw[c].clientId, !.clientSecret = mw[c].clientSecret]

\* A handler that starts the transport before the credential is resolved:
\* the send of a client-credentials middleware gets no header.
EnterHandlerDispatchFirst(q, c, v) ==
  LET config == Config(c)
      sid    == getStreamId(config, View(v), env.FRKR_STREAM_ID)
      q1     == [q EXCEPT !.cfg = c, !.view = v, !.streamId = sid]
      q2     == [q1 EXCEPT !.requestData = Some(RequestData(sid[1], v))]
  IN  IF Skips(sid) THEN CallNext([q1 EXCEPT !.pc = "done"])
      ELSE IF UsesClientCredentials(mw[c])
           THEN Dispatch(q2, [scheme |-> "undefined", basic |-> <<>>, bearer |-> None])
           ELSE Dispatch(q2, BasicHeader(mw[c]))

\* The handler from its entry to its first suspension or its return.
EnterHandler(q, c, v) ==
  LET config == Config(c)
      sid    == getStreamId(config, View(v), env.FRKR_STREAM_ID)
      q1     == [q EXCEPT !.cfg = c, !.view = v, !.streamId = sid]
      q2     == [q1 EXCEPT !.requestData = Some(RequestData(sid[1], v))]
  IN  IF Skips(sid) THEN CallNext([q1 EXCEPT !.pc = "done"])
      ELSE IF UsesClientCredentials(mw[c])
           THEN StartGetAccessToken(q2, TokenConfig(c))
           ELSE Dispatch(q2, BasicHeader(mw[c]))

\* A request enters the middleware of configuration c.
Enter(r, c, v) ==
  /\ req[r].pc = "idle"
  /\ <<c, v>> \in Scenarios
  /\ \A p \in Reqs : p < r => req[p].pc # "idle"
  /\ req' = [req EXCEPT ![r] = EnterHandler(@, c, v)]
  /\ UNCHANGED <<args, ret, now, ticks, env, mw, tokenCache, issuerCache, grantSeq>>

\* Issuer.discover settles: the issuer is cached and the grant is started, or
\* the error is logged and thrown.
DiscoverReturns(r, ok) ==
  /\ req[r].pc = "awaitDiscover"
  /\ IF ok
     THEN /\ issuerCache' = Some(req[r].discoverCalls[Len(req[r].discoverCalls)])
          /\ req' = [req EXCEPT ![r] =
                       StartGrant(@, TokenConfig(@.cfg), issuerCache'[1])]
     ELSE /\ issuerCache' = issuerCache
          /\ req' = [req EXCEPT ![r] = TokenFailure(@, "discovery")]
  /\ UNCHANGED <<args, ret, now, ticks, env, mw, tokenCache, grantSeq>>

\* The token the provider issues for a grant call.
IssuedToken(call) ==
  [n |-> grantSeq + 1, issuer |-> call.issuer, client_id |-> call.client_id,
   audience |-> call.audience]

\* A cache write that stores the token and keeps the expiry of a token
\* already cached.
GrantSucceedsKeepsExpiry(r, exp) ==
  /\ req[r].pc = "awaitGrant"
  /\ LET tok == IssuedToken(req[r].grantCalls[Len(req[r].grantCalls)])
     IN  /\ tokenCache' = [accessToken |-> Some(tok),
                           expiresAt |-> IF tokenCache.accessToken = None THEN ExpiresAt(exp)
                                         ELSE tokenCache.expiresAt]
         /\ req' = [req EXCEPT ![r] = [@ EXCEPT !.pc = "tokenReady", !.token = Some(tok)]]
  /\ grantSeq' = grantSeq + 1
  /\ UNCHANGED <<args, ret, now, ticks, env, mw, issuerCache>>

\* client.grant settles with a token set that holds an access token: the
\* cache is written and the token returned.
GrantSucceeds(r, exp) ==
  /\ req[r].pc = "awaitGrant"
  /\ LET tok == IssuedToken(req[r].grantCalls[Len(req[r].grantCalls)])
     IN  /\ tokenCache' = [accessToken |-> Some(tok), expiresAt |-> ExpiresAt(exp)]
         /\ req' = [req EXCEPT ![r] = [@ EXCEPT !.pc = "tokenReady", !.token = Some(tok)]]
  /\ grantSeq' = grantSeq + 1
  /\ UNCHANGED <<args, ret, now, ticks, env, mw, issuerCache>>

\* A failure path that drops the cached token.
GrantFailsClearsCache(r, e) ==
  /\ req[r].pc = "awaitGrant"
  /\ req' = [req EXCEPT ![r] = TokenFailure(@, e)]
  /\ tokenCache' = [accessToken |-> None, expiresAt |-> 0]
  /\ UNCHANGED <<args, ret, now, ticks, env, mw, issuerCache, grantSeq>>

\* client.grant rejects, or settles with no access token.
GrantFails(r, e) ==
  /\ req[r].pc = "awaitGrant"
  /\ req' = [req EXCEPT ![r] = TokenFailure(@, e)]
  /\ UNCHANGED <<args, ret, now, ticks, env, mw, tokenCache, issuerCache, grantSeq>>

\* The handler resumes after await getAccessToken(...).
Resume(r) ==
  /\ req[r].pc \in {"tokenReady", "tokenFailed"}
  /\ req' = [req EXCEPT ![r] =
               IF @.pc = "tokenReady" THEN Dispatch(@, BearerHeader(@.token))
               ELSE AuthFailed(@)]
  /\ UNCHANGED <<args, ret, now, ticks, env, mw, tokenCache, issuerCache, grantSeq>>

\* ------------------------------------------------------------- transports
\* A failure handler that hands the error to the host pipeline: next(err).
DeliveryFailedPropagates(q, outcome) ==
  [q EXCEPT !.delivery = outcome,
            !.logs = @ \cup {"mirror"},
            !.nextCalls = @ + 1,
            !.nextErr = TRUE]

\* What a failed delivery leaves: HttpTransport.send's catch logs, the gRPC
\* callback logs, and a send that threw is logged by the handler's .catch.
DeliveryFailed(q, outcome) ==
  [q EXCEPT !.delivery = outcome,
            !.logs = @ \cup {IF outcome = "threw" THEN "mirror"
                             ELSE mw[q.cfg].transportType}]

\* The delivery started by transport.send settles.
DeliveryCompletes(r, outcome) ==
  /\ req[r].delivery = "inflight"
  /\ outcome = "threw" => mw[req[r].cfg].transportType = "grpc"
  /\ req' = [req EXCEPT ![r] =
               IF outcome = "ok" THEN [@ EXCEPT !.delivery = "ok"]
               ELSE DeliveryFailed(@, outcome)]
  /\ UNCHANGED <<args, ret, now, ticks, env, mw, tokenCache, issuerCache, grantSeq>>

\* ------------------------------------------------------------------ clock
\* The clock advances between two readings of Date.now(): a request yet
\* to enter reads it at the cache check and in the envelope, a request
\* awaiting the provider reads it when the grant returns.
Tick(d) ==
  /\ ticks < MaxTicks
  /\ \E r \in Reqs : req[r].pc \in {"idle", "awaitDiscover", "awaitGrant"}
  /\ now' = now + d
  /\ ticks' = ticks + 1
  /\ UNCHANGED <<args, ret, env, mw, tokenCache, issuerCache, grantSeq, req>>

Next ==
  \/ \E r \in Reqs, c \in ConfigNames, v \in ViewIds : Enter(r, c, v)
  \/ \E r \in Reqs, ok \in BOOLEAN : DiscoverReturns(r, ok)
  \/ \E r \in Reqs, exp \in ExpiresInVals : GrantSucceeds(r, exp)
  \/ \E r \in Reqs, e \in {"grant", "no_token"} : GrantFails(r, e)
  \/ \E r \in Reqs : Resume(r)
  \/ \E r \in Reqs, o \in {"ok", "failed", "threw"} : DeliveryCompletes(r, o)
  \/ \E d \in ClockSteps : Tick(d)

Spec == Init /\ [][Next]_vars

\* The event loop runs a continuation that is ready: a handler whose
\* getAccessToken promise has settled resumes.  Nothing makes the identity
\* provider or the ingestion endpoint answer.
FairSpec == Spec /\ WF_vars(\E r \in Reqs : Resume(r))

\* ------------------------------------------------- environment changes
\* The values the host may give the environment's variables after the
\* mirror(config) calls.
EnvChanges ==
  {<<"FRKR_STREAM_ID", Some("other-stream")>>, <<"FRKR_TRANSPORT", Some("grpc")>>}

\* process.env[name] = value, once the middlewares are constructed.
SetEnv(name, value) ==
  /\ <<name, value>> \in EnvChanges
  /\ env[name] # value
  /\ env' = [env EXCEPT ![name] = value]
  /\ UNCHANGED <<args, ret, now, ticks, mw, tokenCache, issuerCache, grantSeq, req>>

EnvNext ==
  \/ Next
  \/ \E ch \in EnvChanges : SetEnv(ch[1], ch[2])

EnvSpec == Init /\ [][EnvNext]_vars

\* ------------------------------------------------------- direct calls
\* getStreamId and normalizePath called on their own, over routing
\* configurations and requests beyond the ones the middleware instances
\* above are given.

\* Entries of a pattern map (an object's own keys are distinct).
MaxEntries == 3

\* The keys a pattern map is built from: catch-all, prefix wildcards, exact
\* paths.
PatternPool ==
  << <<"*">>, <<"/","*">>, <<"/","a","/","*">>, <<"/","a">>, <<"/","a","/","b">> >>

\* The value stored under each key of the pool.
PoolStreams == <<"star", "root-pre", "a-pre", "a-exact", "ab-exact">>

\* Lists of n distinct indexes of the pool: the keys in declaration order.
RECURSIVE KeyLists(_)
KeyLists(n) ==
  IF n = 0 THEN {<<>>}
  ELSE {Append(ks, i) : <<ks, i>> \in
          {x \in KeyLists(n - 1) \X (1..Len(PatternPool)) :
             \A j \in 1..Len(x[1]) : x[1][j] # x[2]}}

PatternMaps ==
  {[j \in 1..Len(ks) |->
      [pattern |-> PatternPool[ks[j]], streamId |-> Some(PoolStreams[ks[j]])]] :
     ks \in UNION {KeyLists(n) : n \in 0..MaxEntries}}

RoutingConfigs ==
  {ObjectStream(es) : es \in PatternMaps}
    \cup {FunctionStream(<<Some(""), None, Some("fn-stream")>>)}
    \cup {StringStream(""), StringStream("single-stream"), NoStream}

\* req.path and req.url as the host framework may leave them.
PathVals ==
  {None, Some(<<>>), Some(<<"/","a">>), Some(<<"/","a","/">>),
   Some(<<"/","a","/","b">>), Some(<<"/","a","b">>)}

UrlVals ==
  {None, Some(<<>>), Some(<<"?","x">>), Some(<<"/","a","?","x","?","y">>),
   Some(<<"/","c","/">>)}

\* The requests of the direct calls; a routing function sees every id, the
\* other configurations do not look at it.
Requests(sc) ==
  {[path |-> p, url |-> u, id |-> i] :
     p \in PathVals, u \in UrlVals,
     i \in IF sc.kind = "function" THEN 1..3 ELSE {1}}

\* process.env.FRKR_STREAM_ID at the call.
CallEnvs == {None, Some(""), Some("env-stream")}

CallInit ==
  /\ ProcessInit
  /\ \E sc \in RoutingConfigs :
       \E request \in Requests(sc), e \in CallEnvs :
         args = [config |-> [NoConfig EXCEPT !.streamId = sc],
                 request |-> request, e |-> e]
  /\ ret = NoRet

\* getStreamId(config, req) is called and returns.
CallGetStreamId ==
  /\ ret.streamId = None
  /\ ret' = [ret EXCEPT !.streamId = Some(getStreamId(args.config, args.request, args.e))]
  /\ UNCHANGED <<now, ticks, env, mw, tokenCache, issuerCache, grantSeq, req, args>>

\* normalizePath(req) is called and returns.
CallNormalizePath ==
  /\ ret.path = None
  /\ ret' = [ret EXCEPT !.path = Some(normalizePath(args.request))]
  /\ UNCHANGED <<now, ticks, env, mw, tokenCache, issuerCache, grantSeq, req, args>>

DirectNext ==
  \/ CallGetStreamId
  \/ CallNormalizePath

CallSpec == CallInit /\ [][DirectNext]_vars

\* ---------------------------------------------------------- request ids
\* The request_id of the envelopes the handler builds, one after the other,
\* as the clock advances or not between them.

\* Math.random().toString(36).substr(2, 9): base-36 digits, none when
\* Math.random() returned 0.
RandomSuffixes == {"", "4fzzzxjyl", "9x8k2m1qa", "k3b7n0c5d", "zik0zj"}

\* `req-${Date.now()}-${suffix}`: the suffix holds no '-', so the string
\* determines both parts.
RequestId(ms, suffix) == [ms |-> ms, suffix |-> suffix]

\* The handler builds the envelope of one more request, with Math.random()
\* giving suffix.
CaptureRequestId(suffix) ==
  /\ Len(ret.requestIds) < MaxReqs
  /\ ret' = [ret EXCEPT !.requestIds = Append(@, RequestId(now, suffix))]
  /\ UNCHANGED <<args, now, ticks, env, mw, tokenCache, issuerCache, grantSeq, req>>

IdNext ==
  \/ \E suffix \in RandomSuffixes : CaptureRequestId(suffix)
  \/ \E d \in ClockSteps : Tick(d)

IdSpec == Init /\ [][IdNext]_vars

\* ============================================================== claims
\* The request views and their normalized paths, by index.
ViewOf == [v \in ViewIds |-> View(v)]

NormalizedPath == [v \in ViewIds |-> normalizePath(View(v))]

Entered(r) == req[r].pc # "idle"

HasNext(r) == Entered(r) /\ ViewOf[req[r].view].nextIsFn

\* The request entered the handler in this step.
Enters(r) == req[r].pc = "idle" /\ req'[r].pc # "idle"

\* C1: every request that enters the middleware has next invoked exactly
\* once, in the turn of its entry, whatever the mirroring outcome.
C1_NextOnceInEntryTurn ==
  [][\A r \in Reqs :
       /\ req'[r].nextCalls <= 1
       /\ (Enters(r) /\ ViewOf[req'[r].view].nextIsFn) => req'[r].nextCalls = 1]_vars

\* C2: every request that enters the middleware eventually has next invoked,
\* also when the provider's discovery or grant call never completes.
C2_PassthroughDespiteHungFetch ==
  \A r \in Reqs : HasNext(r) ~> (req[r].nextCalls = 1)

\* C3: once transport.send has been started next has been invoked, whether
\* or not the delivery has completed, and the delivery's completion changes
\* nothing but the delivery's state and the log.
C3_DeliveryNeverAwaited ==
  [][\A r \in Reqs :
       /\ req'[r].sent # <<>> =>
            /\ req'[r].pc = "done"
            /\ ViewOf[req'[r].view].nextIsFn => req'[r].nextCalls = 1
       /\ (req[r].delivery = "inflight" /\ req'[r].delivery # "inflight") =>
            req'[r] = [req[r] EXCEPT !.delivery = req'[r].delivery,
                                     !.logs = req'[r].logs]]_vars

C3_DeliveryInFlightAfterNext ==
  \E r \in Reqs : req[r].delivery = "inflight" /\ req[r].nextCalls = 1

\* C4: a failed delivery, in either transport, is logged, is not sent again,
\* and gives the host pipeline no error: next was invoked once, with no
\* argument.
C4_DeliveryFailureContained ==
  \A r \in Reqs :
    req[r].delivery \in {"failed", "threw"} =>
      /\ req[r].logs \cap {"http", "grpc", "mirror"} # {}
      /\ Len(req[r].sent) = 1
      /\ ~req[r].nextErr
      /\ req[r].nextCalls = IF HasNext(r) THEN 1 ELSE 0

C4_BothTransportsFailed ==
  \E r, p \in Reqs :
    /\ req[r].delivery = "failed" /\ mw[req[r].cfg].transportType = "http"
    /\ req[p].delivery \in {"failed", "threw"} /\ mw[req[p].cfg].transportType = "grpc"

\* C5: when the client-credentials flow fails (no issuer, discovery error,
\* grant error, no access_token), the error is logged, nothing is sent for
\* the request, and once the handler has finished next has been invoked once
\* with no argument.
C5_CredentialFailureSkipsMirror ==
  \A r \in Reqs :
    req[r].err # "none" =>
      /\ UsesClientCredentials(mw[req[r].cfg])
      /\ "token" \in req[r].logs
      /\ req[r].sent = <<>> /\ req[r].delivery = "none"
      /\ req[r].pc \in {"tokenFailed", "done"}
      /\ ~req[r].nextErr
      /\ req[r].nextCalls = IF HasNext(r) /\ req[r].pc = "done" THEN 1 ELSE 0

C5_TwoCredentialFailures ==
  \E r, p \in Reqs :
    /\ req[r].pc = "done" /\ req[r].err = "config" /\ req[r].nextCalls = 1
    /\ req[p].pc = "done" /\ req[p].err \in {"discovery", "grant", "no_token"}
    /\ req[p].nextCalls = 1

\* C6: a request for which the resolver yields nothing (null, undefined or
\* '') ends in the turn of its entry with next invoked, having made no
\* discovery or grant call, written no cache, sent nothing and logged
\* nothing.
C6_NoStreamSkipsSilently ==
  [][\A r \in Reqs :
       (req'[r].pc # "idle" /\ ~Truthy(req'[r].streamId)) =>
         /\ req'[r].pc = "done"
         /\ req'[r].discoverCalls = <<>> /\ req'[r].grantCalls = <<>>
         /\ req'[r].token = None /\ req'[r].err = "none"
         /\ req'[r].sent = <<>> /\ req'[r].delivery = "none"
         /\ req'[r].logs = {}
         /\ ViewOf[req'[r].view].nextIsFn => req'[r].nextCalls = 1
         /\ Enters(r) => UNCHANGED <<tokenCache, issuerCache, grantSeq>>]_vars

C6_EmptyStringStreamSkipped ==
  \E r, p \in Reqs :
    /\ req[r].pc = "done" /\ req[r].streamId = Some("") /\ req[r].nextCalls = 1
    /\ req[p].pc = "done" /\ req[p].streamId = None /\ req[p].nextCalls = 1

\* C7: no request causes more than one transport send, and a finished
\* request whose stream and credential resolved caused exactly one, with the
\* resolver's result as stream_id and the normalized path as request.path.
C7_ExactlyOneSend ==
  \A r \in Reqs :
    /\ Len(req[r].sent) <= 1
    /\ (req[r].pc = "done" /\ Truthy(req[r].streamId) /\ req[r].err = "none") =>
         /\ Len(req[r].sent) = 1
         /\ req[r].sent[1].data.stream_id = req[r].streamId[1]
         /\ req[r].sent[1].data.path = NormalizedPath[req[r].view]
         /\ req[r].sent[1].auth = req[r].authHeader[1]

C7_SentBearerAndBasic ==
  \E r, p \in Reqs :
    /\ req[r].sent # <<>> /\ req[r].sent[1].auth.scheme = "Bearer"
    /\ req[r].view = 2
    /\ req[p].sent # <<>> /\ req[p].sent[1].auth.scheme = "Basic"
    /\ req[p].sent[1].data.stream_id = "orders-stream"

C10_FailureLeavesCacheAndRetries ==
  [][\A r \in Reqs :
       /\ (req[r].err = "none" /\ req'[r].err # "none") =>
            /\ tokenCache' = tokenCache
            /\ issuerCache' = issuerCache
       /\ ( /\ Enters(r)
            /\ \E p \in Reqs : req[p].err \in {"discovery", "grant", "no_token"}
            /\ UsesClientCredentials(mw[req'[r].cfg])
            /\ Truthy(req'[r].streamId)
            /\ IssuerUrl(Config(req'[r].cfg)) # None
            /\ ~(tokenCache.accessToken # None /\ now < tokenCache.expiresAt - Margin) ) =>
            /\ Len(req'[r].discoverCalls) + Len(req'[r].grantCalls) = 1
            /\ req'[r].pc \in {"awaitDiscover", "awaitGrant"}]_vars

C10_RetryAfterFailedGrant ==
  \E r, p \in Reqs :
    /\ req[p].pc = "done" /\ req[p].err = "grant"
    /\ req[r].pc = "done" /\ req[r].token # None /\ req[r].grantCalls # <<>>
    /\ req[r].token[1].n = 1
    /\ tokenCache.accessToken = req[r].token

\* -------------------------------------------------- the stream resolver
\* The routing configuration of the direct call, and whether it returned.
Routing == args.config.streamId

Resolved == ret.streamId # None

\* C11: with a routing function configured, getStreamId returns what the
\* function returns for the request, null and '' included, whatever the
\* request's path and the environment's stream.
C11_FunctionResultVerbatim ==
  (Resolved /\ Routing.kind = "function") =>
    ret.streamId[1] = Routing.fn[args.request.id]

C11_FunctionReturnedNull ==
  /\ Resolved /\ Routing.kind = "function"
  /\ args.request.id = 2 /\ ret.streamId[1] = None
  /\ args.e = Some("env-stream")
  /\ args.request.path = Some(<<"/","a">>)

\* The normalized path of the direct call's request.
CallPath == normalizePath(args.request)

\* C12: with a pattern map configured, an entry whose pattern is the
\* normalized path gives getStreamId's result, wherever the entry stands
\* and whatever wildcard entries the map also holds.
C12_ExactEntryWins ==
  (Resolved /\ Routing.kind = "object") =>
    \A i \in 1..Len(Routing.entries) :
      Routing.entries[i].pattern = CallPath =>
        ret.streamId[1] = Routing.entries[i].streamId

C12_ExactEntryLastAfterWildcards ==
  /\ Resolved /\ Routing.kind = "object"
  /\ Len(Routing.entries) = 3
  /\ Routing.entries[1].pattern = <<"/","a","/","*">>
  /\ Routing.entries[2].pattern = <<"*">>
  /\ Routing.entries[3].pattern = <<"/","a">>
  /\ CallPath = <<"/","a">>
  /\ ret.streamId[1] = Some("a-exact")

\* pattern is prefix + '/*', and path is the prefix or continues it with '/'.
WildcardCovers(pattern, path) ==
  LET n == Len(pattern) - 2
  IN  /\ n >= 0
      /\ pattern[n + 1] = "/" /\ pattern[n + 2] = "*"
      /\ Len(path) >= n
      /\ \A k \in 1..n : path[k] = pattern[k]
      /\ Len(path) = n \/ path[n + 1] = "/"

NoExactEntry ==
  \A i \in 1..Len(Routing.entries) : Routing.entries[i].pattern # CallPath

\* C13: with a pattern map that has no entry for the normalized path
\* itself, getStreamId returns the value of the first entry, in declaration
\* order, whose pattern is a prefix followed by '/*' with the path equal to
\* the prefix or continuing it with '/'; a prefix that ends inside a path
\* segment does not count.
C13_FirstPrefixWildcardWins ==
  (Resolved /\ Routing.kind = "object" /\ NoExactEntry) =>
    \A i \in 1..Len(Routing.entries) :
      ( /\ WildcardCovers(Routing.entries[i].pattern, CallPath)
        /\ \A j \in 1..(i - 1) : ~WildcardCovers(Routing.entries[j].pattern, CallPath) )
        => ret.streamId[1] = Routing.entries[i].streamId

C13_SegmentBoundaryRespected ==
  /\ Resolved /\ Routing.kind = "object"
  /\ Len(Routing.entries) = 3
  /\ Routing.entries[1].pattern = <<"/","a","/","*">>
  /\ Routing.entries[2].pattern = <<"/","*">>
  /\ Routing.entries[3].pattern = <<"*">>
  /\ CallPath = <<"/","a","b">>
  /\ ret.streamId[1] = Some("root-pre")

NoWildcardCovers ==
  \A i \in 1..Len(Routing.entries) : ~WildcardCovers(Routing.entries[i].pattern, CallPath)

HasCatchAll ==
  \E i \in 1..Len(Routing.entries) : Routing.entries[i].pattern = <<"*">>

\* C14: with a pattern map configured, getStreamId returns the value of the
\* '*' entry only when the map has no entry for the normalized path itself
\* and no prefix wildcard covers it, and then it does; when nothing matches
\* and the map has no '*' entry (the empty map too) it returns null.
C14_CatchAllLastElseNull ==
  (Resolved /\ Routing.kind = "object") =>
    /\ ret.streamId[1] = Some("star") => (NoExactEntry /\ NoWildcardCovers)
    /\ (NoExactEntry /\ NoWildcardCovers) =>
         ret.streamId[1] = IF HasCatchAll THEN Some("star") ELSE None

C14_CatchAllDeclaredFirstUsedLast ==
  /\ Resolved /\ Routing.kind = "object"
  /\ Len(Routing.entries) = 2
  /\ Routing.entries[1].pattern = <<"*">>
  /\ Routing.entries[2].pattern = <<"/","a","/","*">>
  /\ CallPath = <<"/","a","b">>
  /\ ret.streamId[1] = Some("star")

\* C15: with a single string S configured, getStreamId returns S for every
\* request, the empty string included and whatever the environment holds
\* (null is taken for the empty string: both mean no stream to the caller).
C15_SingleStringReturned ==
  (Resolved /\ Routing.kind = "string") =>
    \/ ret.streamId[1] = Some(Routing.value)
    \/ Routing.value = "" /\ ret.streamId[1] = None

\* ------------------------------------------------------ the normalizer
\* t is s cut at its first '?' (all of s when it has none).
CutAtFirstQuery(s, t) ==
  /\ Len(t) <= Len(s)
  /\ \A k \in 1..Len(t) : t[k] = s[k] /\ t[k] # "?"
  /\ Len(t) = Len(s) \/ s[Len(t) + 1] = "?"

\* C16: normalizePath returns req.path when it is present and not empty,
\* otherwise req.url cut at its first '?', and '/' when that is empty or
\* there is no url; the result is never empty and keeps a trailing slash.
C16_PathElseUrlElseRoot ==
  ret.path # None =>
    LET request == args.request
        out     == ret.path[1]
    IN  /\ out # <<>>
        /\ TruthyText(request.path) => out = request.path[1]
        /\ (~TruthyText(request.path) /\ TruthyText(request.url)) =>
             \/ CutAtFirstQuery(request.url[1], out)
             \/ out = <<"/">> /\ CutAtFirstQuery(request.url[1], <<>>)
        /\ (~TruthyText(request.path) /\ ~TruthyText(request.url)) => out = <<"/">>

C16_UrlCutAtFirstQuery ==
  /\ ret.path = Some(<<"/","a">>)
  /\ args.request.path = Some(<<>>)
  /\ args.request.url = Some(<<"/","a","?","x","?","y">>)

\* ------------------------------------------------ the credential provider
\* The configurations by name.
Configs == [c \in ConfigNames |-> Config(c)]

\* What is configured for request r's middleware: the configuration's value
\* or else the environment's.
Configured(r, field, variable) ==
  OrElse(Configs[req[r].cfg][field], env[variable])

BothCredentials(r) ==
  /\ Truthy(Configured(r, "clientId", "FRKR_CLIENT_ID"))
  /\ Truthy(Configured(r, "clientSecret", "FRKR_CLIENT_SECRET"))

\* C17: a request with a stream gets a bearer header only from a middleware
\* with both a client id and a client secret; from any other middleware it
\* is sent in its entry turn with the Basic header of the configured, or
\* else the default, user and password, no error, and no discovery or grant
\* call.
C17_BasicUnlessBothCredentials ==
  \A r \in Reqs :
    (Entered(r) /\ Truthy(req[r].streamId)) =>
      IF BothCredentials(r)
      THEN req[r].sent # <<>> => req[r].sent[1].auth.scheme = "Bearer"
      ELSE /\ req[r].pc = "done"
           /\ Len(req[r].sent) = 1
           /\ req[r].sent[1].auth =
                [scheme |-> "Basic",
                 basic  |-> <<OrElse(Configured(r, "username", "FRKR_USERNAME"),
                                     Some("testuser"))[1],
                              OrElse(Configured(r, "password", "FRKR_PASSWORD"),
                                     Some("testpass"))[1]>>,
                 bearer |-> None]
           /\ req[r].err = "none" /\ req[r].token = None
           /\ req[r].discoverCalls = <<>> /\ req[r].grantCalls = <<>>
           /\ "token" \notin req[r].logs

C17_HalfConfiguredSendsDefaultBasic ==
  \E r, p \in Reqs :
    /\ req[r].cfg = "half" /\ req[r].sent # <<>>
    /\ req[r].sent[1].auth.basic = <<"testuser", "testpass">>
    /\ req[p].cfg = "basic" /\ req[p].sent # <<>>
    /\ req[p].sent[1].auth.basic = <<"u", "p">>

\* C18: a client-credentials request that enters with no valid cached token
\* and a configuration without issuer and authDomain fails in its entry
\* turn as a configuration error, with no discovery and no grant call then
\* or later; a discovery made for a configuration with both issuer and
\* authDomain is made with the issuer's URL.
C18_NoIssuerFailsBeforeAnyCall ==
  [][\A r \in Reqs :
       LET cfg == Configs[req'[r].cfg]
       IN  /\ ( /\ Enters(r)
                /\ UsesClientCredentials(mw[req'[r].cfg])
                /\ Truthy(req'[r].streamId)
                /\ ~(tokenCache.accessToken # None /\ now < tokenCache.expiresAt - Margin)
                /\ ~Truthy(cfg.issuer) /\ ~Truthy(cfg.authDomain) ) =>
                /\ req'[r].pc = "tokenFailed" /\ req'[r].err = "config"
                /\ "token" \in req'[r].logs
           /\ req'[r].err = "config" =>
                req'[r].discoverCalls = <<>> /\ req'[r].grantCalls = <<>>
           /\ \A k \in 1..Len(req'[r].discoverCalls) :
                (Truthy(cfg.issuer) /\ Truthy(cfg.authDomain)) =>
                  req'[r].discoverCalls[k] = cfg.issuer[1]]_vars

C18_ConfigErrorAndExplicitIssuer ==
  \E r, p \in Reqs :
    /\ req[r].pc = "done" /\ req[r].err = "config" /\ req[r].discoverCalls = <<>>
    /\ tokenCache.accessToken = None
    /\ req[p].cfg = "oidc" /\ req[p].discoverCalls = <<"https://idp-a">>

\* C19: a grant that succeeds with expires_in = exp leaves the returned
\* token in the cache with expiresAt = now + exp * 1000 for every exp the
\* provider returned, 0 included, and with expiresAt = now + 3600000 only
\* when the provider returned none.
C19_ExpiryFromProvider ==
  [][\A r \in Reqs, exp \in ExpiresInVals :
       GrantSucceeds(r, exp) =>
         /\ tokenCache'.accessToken = req'[r].token
         /\ tokenCache'.expiresAt =
              IF exp # None THEN now + exp[1] * MsPerSec ELSE now + DefaultTtl]_vars

\* C20: a discovery call is started only in a turn that found the issuer
\* cache empty, and only in the request's entry turn: a request that enters
\* once a discovery has filled the cache makes no discovery call, and the
\* discoveries that overlap were all started while the cache was empty.
C20_NoDiscoveryOnceIssuerCached ==
  [][\A r \in Reqs :
       /\ req'[r].discoverCalls # req[r].discoverCalls =>
            /\ issuerCache = None
            /\ Enters(r)
            /\ Len(req'[r].discoverCalls) = 1
       /\ (Enters(r) /\ issuerCache # None) => req'[r].discoverCalls = <<>>
       /\ (issuerCache # None /\ issuerCache' # issuerCache) =>
            \E p \in Reqs : req[p].pc = "awaitDiscover" /\ req'[p].pc # "awaitDiscover"]_vars

C20_GrantWithoutDiscoveryAfterFirst ==
  \E r, p \in Reqs :
    /\ req[p].discoverCalls # <<>> /\ req[p].err = "grant"
    /\ issuerCache # None /\ tokenCache.accessToken = None
    /\ req[r].discoverCalls = <<>> /\ req[r].grantCalls # <<>>

\* -------------------------------------------------------- the dispatch
\* C21: every transport.send made carries a header: Bearer with a token
\* the provider issued, the one getAccessToken resolved with for the
\* request (from the cache or from its own grant), or Basic with the
\* middleware's user and password; none is made without one.
C21_SendCarriesResolvedHeader ==
  \A r \in Reqs :
    \A k \in 1..Len(req[r].sent) :
      LET auth == req[r].sent[k].auth
      IN  /\ req[r].authHeader = Some(auth)
          /\ \/ /\ auth.scheme = "Bearer"
                /\ auth.bearer # None
                /\ auth.bearer = req[r].token
                /\ auth.bearer[1].n \in 1..grantSeq
                /\ req[r].err = "none"
             \/ /\ auth.scheme = "Basic"
                /\ auth.basic = <<mw[req[r].cfg].username, mw[req[r].cfg].password>>
                /\ req[r].token = None

C21_BearerFromCacheAndFromGrant ==
  \E r, p \in Reqs :
    /\ req[r].sent # <<>> /\ req[r].sent[1].auth.scheme = "Bearer"
    /\ req[r].grantCalls # <<>>
    /\ req[p].sent # <<>> /\ req[p].sent[1].auth.scheme = "Bearer"
    /\ req[p].grantCalls = <<>>

\* C22: what mirror() fixed stays fixed when the environment changes
\* afterwards: two requests with the same view to the same middleware
\* resolve to the same stream, and every middleware keeps the transport of
\* its configuration, or http (the environment named none at mirror()).
C22_RoutingFixedAtMirror ==
  /\ \A r, p \in Reqs :
       (Entered(r) /\ Entered(p) /\ req[r].cfg = req[p].cfg /\ req[r].view = req[p].view)
         => req[r].streamId = req[p].streamId
  /\ \A c \in ConfigNames :
       mw[c].transportType = OrElse(Configs[c].transport, Some("http"))[1]

\* C23: any two envelopes carry different request_id values, also when
\* both were built in the same millisecond.
C23_RequestIdsDiffer ==
  \A i, j \in 1..Len(ret.requestIds) :
    i # j => ret.requestIds[i] # ret.requestIds[j]

\* C24: a bearer token sent for a request was granted for the request's
\* own middleware: by its issuer, to its client id, for its audience.
C24_TokenOfOwnConfiguration ==
  \A r \in Reqs :
    (req[r].sent # <<>> /\ req[r].sent[1].auth.scheme = "Bearer") =>
      LET tok == req[r].sent[1].auth.bearer[1]
          cfg == Configs[req[r].cfg]
      IN  /\ Some(tok.issuer) = IssuerUrl(cfg)
          /\ Some(tok.client_id) = mw[req[r].cfg].clientId
          /\ tok.audience = OrElse(cfg.audience, Some("https://api.frkr.io"))[1]

\* The validity a grant's cache write can give its token, in ms.
GrantTtls == {DefaultTtl} \cup {e[1] * MsPerSec : e \in ExpiresInVals \ {None}}

\* C25: the token cache changes only in the turn in which one request's
\* grant returns, and then to that grant's token together with an expiry
\* computed in that turn; the cached token is always the one issued last,
\* and the empty cache has expiry 0.
C25_CachePairFromOneGrant ==
  [][/\ tokenCache' # tokenCache =>
          \E r \in Reqs :
            /\ req[r].pc = "awaitGrant" /\ req'[r].pc = "tokenReady"
            /\ tokenCache'.accessToken = req'[r].token
            /\ req'[r].token # None
            /\ req'[r].token[1].n = grantSeq'
            /\ grantSeq' = grantSeq + 1
            /\ (tokenCache'.expiresAt - now) \in GrantTtls
     /\ tokenCache'.accessToken = None => (tokenCache'.expiresAt = 0 /\ grantSeq' = 0)
     /\ tokenCache'.accessToken # None => tokenCache'.accessToken[1].n = grantSeq']_vars

C25_OverlappingGrantsLastWins ==
  \E r, p \in Reqs :
    /\ r # p
    /\ req[r].discoverCalls # <<>> /\ req[p].discoverCalls # <<>>
    /\ req[p].token # None /\ req[p].token[1].n = 1
    /\ req[r].token # None /\ req[r].token[1].n = 2
    /\ tokenCache = [accessToken |-> req[r].token, expiresAt |-> 180000]
    /\ now = 60000

\* C26: a step that starts a grant call is taken only while the token cache
\* holds no valid token (no token, or one within the margin of its expiry).
C26_GrantOnlyWithoutValidToken ==
  [][\A r \in Reqs :
       Len(req'[r].grantCalls) > Len(req[r].grantCalls) =>
         ~(tokenCache.accessToken # None /\ now < tokenCache.expiresAt - Margin)]_vars

====
